---------------------------- MODULE Spec2Model ----------------------------
(***************************************************************************)
(* A model of XML::Output (xmloutput.cpp): the element-stack writer that   *)
(* serialises begin/end/attribute calls into a byte stream.                *)
(*                                                                         *)
(* Text is modelled as a sequence of one-character strings, so that two    *)
(* texts are equal exactly when their bytes are.  A failed assert() aborts *)
(* the process: the writer accepts no call after a contract violation.     *)
(***************************************************************************)
EXTENDS Integers, Sequences, FiniteSets, TLC

(***************************************************************************)
(* Bounds of the exploration.                                              *)
(***************************************************************************)
\* A call that would leave more than MaxDepth elements open is not explored.
MaxDepth == 3

(***************************************************************************)
(* Formatting modes (enum Mode) and pointers.                              *)
(***************************************************************************)
normal == "normal"
terse == "terse"
Modes == {normal, terse}

\* A const char * name argument is the null pointer or the address of a
\* caller buffer: LitPtr is a string literal (never changes), BufPtr a
\* buffer the caller may overwrite or release between calls.
NullPtr == "NULL"
LitPtr == "lit"
BufPtr == "buf"
NamePtrs == {NullPtr, LitPtr, BufPtr}

LitText == <<"r">>
BufTexts == {<<"a">>, <<"b", "c">>}
\* What a released buffer may hold when it is read again.
GarbageTexts == BufTexts \cup {<<"#">>}

\* A const char * value whose target the caller never changes.
NullStr == [null |-> TRUE, text |-> <<>>]
CStr(t) == [null |-> FALSE, text |-> t]

(***************************************************************************)
(* The literals of the source.                                             *)
(***************************************************************************)
Tab == <<"\t">>
Newline == <<"\n">>
Lt == <<"<">>
Gt == <<">">>
LtSlash == <<"<", "/">>
Space == <<" ">>
EqQuote == <<"=", "\"">>
Quote == <<"\"">>
XmlVersion == <<"<", "?", "x", "m", "l", " ", "v", "e", "r", "s", "i", "o", "n", "=", "\"">>
XmlEncoding == <<"\"", " ", "e", "n", "c", "o", "d", "i", "n", "g", "=", "\"">>
XmlStandalone == <<" ", "s", "t", "a", "n", "d", "a", "l", "o", "n", "e", "=", "\"">>
XmlDeclEnd == <<"\"", "?", ">", "\n">>
Yes == <<"y", "e", "s">>
No == <<"n", "o">>
TrueText == <<"T", "r", "u", "e">>
FalseText == <<"F", "a", "l", "s", "e">>

(***************************************************************************)
(* sprintf conversions.                                                    *)
(***************************************************************************)
DigitChar(d) == <<"0", "1", "2", "3", "4", "5", "6", "7", "8", "9">>[d + 1]

\* The decimal digits of n >= 0.
RECURSIVE Digits(_)
Digits(n) == IF n < 10 THEN <<DigitChar(n)>>
             ELSE Digits(n \div 10) \o <<DigitChar(n % 10)>>

\* The decimal digits of |v| for v < 0, computed without negating v (the
\* magnitude of the least 32-bit int is not an int).
RECURSIVE NegDigits(_)
NegDigits(v) ==
    LET d == (10 - (v % 10)) % 10
        q == (v \div 10) + (IF v % 10 = 0 THEN 0 ELSE 1)
    IN  IF q = 0 THEN <<DigitChar(d)>> ELSE NegDigits(q) \o <<DigitChar(d)>>

\* sprintf(tmp, "%d", value) of a 32-bit int.
FormatD(v) == IF v < 0 THEN <<"-">> \o NegDigits(v) ELSE Digits(v)

\* An unsigned int is kept as two 16-bit halves [hi, lo]; "%d" reads its 32
\* bits as an int (two's complement).
UInt(hi, lo) == [hi |-> hi, lo |-> lo]
AsInt(u) == (IF u.hi >= 32768 THEN u.hi - 65536 ELSE u.hi) * 65536 + u.lo

\* sprintf(tmp, "%g", value) on the doubles q/4 with |q| < 4000: at most
\* five significant digits, no exponent, trailing zeros removed.
FormatG(q) ==
    LET a == IF q < 0 THEN -q ELSE q
        frac == <<<<>>, <<".", "2", "5">>, <<".", "5">>, <<".", "7", "5">>>>[(a % 4) + 1]
    IN  (IF q < 0 THEN <<"-">> ELSE <<>>) \o Digits(a \div 4) \o frac

(***************************************************************************)
(* The values of the WriteElement / WriteAttr overloads.                   *)
(***************************************************************************)
StringV(t) == [kind |-> "string", str |-> CStr(t), num |-> 0, u |-> UInt(0, 0), b |-> FALSE]
CStrV(s) == [kind |-> "cstr", str |-> s, num |-> 0, u |-> UInt(0, 0), b |-> FALSE]
IntV(n) == [kind |-> "int", str |-> NullStr, num |-> n, u |-> UInt(0, 0), b |-> FALSE]
UIntV(hi, lo) == [kind |-> "uint", str |-> NullStr, num |-> 0, u |-> UInt(hi, lo), b |-> FALSE]
DoubleV(q) == [kind |-> "double", str |-> NullStr, num |-> q, u |-> UInt(0, 0), b |-> FALSE]
BoolV(x) == [kind |-> "bool", str |-> NullStr, num |-> 0, u |-> UInt(0, 0), b |-> x]


(***************************************************************************)
(* State.                                                                  *)
(***************************************************************************)
VARIABLES
    mLevel,       \* Output::mLevel: the indentation level
    mElements,    \* Output::mElements: the stack of open names (pointers)
    mAttributes,  \* Output::mAttributes: an attribute list is being written
    buf,          \* the bytes the caller's buffer BufPtr holds now
    bufLive,      \* the caller has not released BufPtr
    written,      \* the bytes the latest call wrote to mStream
    result,       \* "ok", or "violation" once an assert has failed
    call,         \* the latest step and its arguments
    opened,       \* history: per open element, its name and indentation when opened
    balance,      \* history: open tags minus close tags written to mStream
    shadow,       \* a second writer given the same calls with modes of its own
    closing       \* -1, or the depth at which the caller began to close everything

vars == <<mLevel, mElements, mAttributes, buf, bufLive, written, result, call,
          opened, balance, shadow, closing>>

\* The bytes a name pointer points to when it is read.
Deref(p) == IF p = LitPtr THEN LitText ELSE buf

(***************************************************************************)
(* The writer as a value: the three fields, the bytes written to mStream   *)
(* during the call in progress, and whether every assert passed so far.    *)
(***************************************************************************)
Output == [mLevel |-> 0, mElements |-> <<>>, mAttributes |-> FALSE,
           sink |-> <<>>, ok |-> TRUE]

\* assert(cond): abort unless cond; nothing runs after an abort.
assert(w, cond) == IF w.ok /\ ~cond THEN [w EXCEPT !.ok = FALSE] ELSE w

\* mStream.write(str, len)
write(w, str) == IF w.ok THEN [w EXCEPT !.sink = @ \o str] ELSE w

\* assert(str); write(str, strlen(str))
writeString(w, s) == write(assert(w, ~s.null), s.text)

\* operator<<(const std::string &)
ShlString(w, s) == write(w, s.text)

\* operator<<(const char *)
ShlCStr(w, s) == writeString(assert(w, ~s.null), s)

\* operator<<(const char *) on a name pointer: the bytes are read now.
ShlName(w, p) == ShlCStr(w, IF p = NullPtr THEN NullStr ELSE CStr(Deref(p)))

\* operator<<(int)
ShlInt(w, value) == writeString(w, CStr(FormatD(value)))

\* operator<<(unsigned int): formatted with "%d" as well.
ShlUInt(w, value) == writeString(w, CStr(FormatD(AsInt(value))))

\* operator<<(double)
ShlDouble(w, value) == writeString(w, CStr(FormatG(value)))

\* Faulty variant: the words are written in lower case.
ShlBool_LowerCase(w, value) ==
    writeString(w, CStr(IF value THEN <<"t", "r", "u", "e">>
                                 ELSE <<"f", "a", "l", "s", "e">>))

\* operator<<(bool)
ShlBool(w, value) == writeString(w, CStr(IF value THEN TrueText ELSE FalseText))

\* The overload of operator<< the value's type selects.
Shl(w, v) ==
    CASE v.kind = "string" -> ShlString(w, v.str)
      [] v.kind = "cstr"   -> ShlCStr(w, v.str)
      [] v.kind = "int"    -> ShlInt(w, v.num)
      [] v.kind = "uint"   -> ShlUInt(w, v.u)
      [] v.kind = "double" -> ShlDouble(w, v.num)
      [] v.kind = "bool"   -> ShlBool(w, v.b)

\* Faulty variant: rejected inside an attribute list.
BeginDocument_OutsideWindowOnly(w, version, encoding, standalone) ==
    LET w0 == assert(w, ~w.mAttributes)
        w1 == assert(w0, ~version.null)
        w2 == assert(w1, ~encoding.null)
        w3 == ShlCStr(ShlCStr(ShlCStr(ShlCStr(ShlCStr(w2, CStr(XmlVersion)), version),
                      CStr(XmlEncoding)), encoding), CStr(Quote))
    IN  ShlCStr(ShlCStr(ShlCStr(w3, CStr(XmlStandalone)),
                CStr(IF standalone THEN Yes ELSE No)), CStr(XmlDeclEnd))

BeginDocument(w, version, encoding, standalone) ==
    LET w1 == assert(w, ~version.null)
        w2 == assert(w1, ~encoding.null)
        w3 == ShlCStr(ShlCStr(ShlCStr(ShlCStr(ShlCStr(w2, CStr(XmlVersion)), version),
                      CStr(XmlEncoding)), encoding), CStr(Quote))
    IN  ShlCStr(ShlCStr(ShlCStr(w3, CStr(XmlStandalone)),
                CStr(IF standalone THEN Yes ELSE No)), CStr(XmlDeclEnd))

\* Faulty variant: a newline ends the document.
EndDocument_WritesNewline(w) ==
    ShlCStr(assert(assert(w, ~w.mAttributes), Len(w.mElements) = 0), CStr(Newline))

\* Faulty variant: the stack is not checked.
EndDocument_NoStackCheck(w) == assert(w, ~w.mAttributes)

EndDocument(w) ==
    assert(assert(w, ~w.mAttributes), Len(w.mElements) = 0)

\* for (int i = 0; i < mLevel; i++) (*this) << "\t";
RECURSIVE IndentFrom(_, _)
IndentFrom(w, i) == IF i < w.mLevel THEN IndentFrom(ShlCStr(w, CStr(Tab)), i + 1) ELSE w

Indent(w) == IndentFrom(w, 0)

\* A field update, skipped after an abort.
Set(w, v) == IF w.ok THEN v ELSE w

\* Faulty variant: accepted inside an attribute list.
BeginElement_NoWindowCheck(w, name, mode) ==
    LET w1 == assert(w, name # NullPtr)
        w3 == Indent(w1)
        w4 == Set(w3, [w3 EXCEPT !.mLevel = @ + 1])
        w5 == ShlCStr(ShlName(ShlCStr(w4, CStr(Lt)), name), CStr(Gt))
        w6 == IF mode # terse THEN ShlCStr(w5, CStr(Newline)) ELSE w5
    IN  Set(w6, [w6 EXCEPT !.mElements = Append(@, name)])

\* Faulty variant: the newline is written in terse mode too.
BeginElement_AlwaysNewline(w, name, mode) ==
    LET w1 == assert(w, name # NullPtr)
        w2 == assert(w1, ~w1.mAttributes)
        w3 == Indent(w2)
        w4 == Set(w3, [w3 EXCEPT !.mLevel = @ + 1])
        w5 == ShlCStr(ShlName(ShlCStr(w4, CStr(Lt)), name), CStr(Gt))
        w6 == ShlCStr(w5, CStr(Newline))
    IN  Set(w6, [w6 EXCEPT !.mElements = Append(@, name)])

BeginElement(w, name, mode) ==
    LET w1 == assert(w, name # NullPtr)
        w2 == assert(w1, ~w1.mAttributes)
        w3 == Indent(w2)
        w4 == Set(w3, [w3 EXCEPT !.mLevel = @ + 1])
        w5 == ShlCStr(ShlName(ShlCStr(w4, CStr(Lt)), name), CStr(Gt))
        w6 == IF mode # terse THEN ShlCStr(w5, CStr(Newline)) ELSE w5
    IN  Set(w6, [w6 EXCEPT !.mElements = Append(@, name)])

\* Faulty variant: the start tag is closed at once.
BeginElementAttrs_ClosesTag(w, name) ==
    LET w1 == assert(w, name # NullPtr)
        w2 == assert(w1, ~w1.mAttributes)
        w3 == Indent(w2)
        w4 == Set(w3, [w3 EXCEPT !.mLevel = @ + 1])
        w5 == ShlCStr(ShlName(ShlCStr(w4, CStr(Lt)), name), CStr(Gt))
        w6 == Set(w5, [w5 EXCEPT !.mAttributes = TRUE])
    IN  Set(w6, [w6 EXCEPT !.mElements = Append(@, name)])

\* Faulty variant: mLevel is not incremented.
BeginElementAttrs_NoLevel(w, name) ==
    LET w1 == assert(w, name # NullPtr)
        w2 == assert(w1, ~w1.mAttributes)
        w3 == Indent(w2)
        w5 == ShlName(ShlCStr(w3, CStr(Lt)), name)
        w6 == Set(w5, [w5 EXCEPT !.mAttributes = TRUE])
    IN  Set(w6, [w6 EXCEPT !.mElements = Append(@, name)])

BeginElementAttrs(w, name) ==
    LET w1 == assert(w, name # NullPtr)
        w2 == assert(w1, ~w1.mAttributes)
        w3 == Indent(w2)
        w4 == Set(w3, [w3 EXCEPT !.mLevel = @ + 1])
        w5 == ShlName(ShlCStr(w4, CStr(Lt)), name)
        w6 == Set(w5, [w5 EXCEPT !.mAttributes = TRUE])
    IN  Set(w6, [w6 EXCEPT !.mElements = Append(@, name)])

\* Faulty variant: a terse call leaves the attribute list open.
EndAttrs_TerseKeepsWindow(w, mode) ==
    LET w1 == assert(w, w.mAttributes)
        w2 == Set(w1, [w1 EXCEPT !.mAttributes = (mode = terse)])
        w3 == ShlCStr(w2, CStr(Gt))
    IN  IF mode # terse THEN ShlCStr(w3, CStr(Newline)) ELSE w3

EndAttrs(w, mode) ==
    LET w1 == assert(w, w.mAttributes)
        w2 == Set(w1, [w1 EXCEPT !.mAttributes = FALSE])
        w3 == ShlCStr(w2, CStr(Gt))
    IN  IF mode # terse THEN ShlCStr(w3, CStr(Newline)) ELSE w3

\* Faulty variant: the attribute list is not checked.
EndElement_NoWindowCheck(w, mode) ==
    LET w1 == assert(w, Len(w.mElements) > 0)
        w3 == assert(w1, w1.mLevel > 0)
        w4 == Set(w3, [w3 EXCEPT !.mLevel = @ - 1])
        w5 == IF mode # terse THEN Indent(w4) ELSE w4
        name == IF w5.ok THEN w5.mElements[Len(w5.mElements)] ELSE NullPtr
        w6 == Set(w5, [w5 EXCEPT !.mElements = SubSeq(@, 1, Len(@) - 1)])
    IN  ShlCStr(ShlCStr(ShlName(ShlCStr(w6, CStr(LtSlash)), name), CStr(Gt)),
                CStr(Newline))

\* Faulty variant: the name stays on the stack.
EndElement_KeepsName(w, mode) ==
    LET w1 == assert(w, Len(w.mElements) > 0)
        w2 == assert(w1, ~w1.mAttributes)
        w3 == assert(w2, w2.mLevel > 0)
        w4 == Set(w3, [w3 EXCEPT !.mLevel = @ - 1])
        w5 == IF mode # terse THEN Indent(w4) ELSE w4
        name == IF w5.ok THEN w5.mElements[Len(w5.mElements)] ELSE NullPtr
    IN  ShlCStr(ShlCStr(ShlName(ShlCStr(w5, CStr(LtSlash)), name), CStr(Gt)),
                CStr(Newline))

\* Faulty variant: the indentation is written before mLevel is decremented.
EndElement_IndentFirst(w, mode) ==
    LET w1 == assert(w, Len(w.mElements) > 0)
        w2 == assert(w1, ~w1.mAttributes)
        w3 == assert(w2, w2.mLevel > 0)
        w4 == IF mode # terse THEN Indent(w3) ELSE w3
        w5 == Set(w4, [w4 EXCEPT !.mLevel = @ - 1])
        name == IF w5.ok THEN w5.mElements[Len(w5.mElements)] ELSE NullPtr
        w6 == Set(w5, [w5 EXCEPT !.mElements = SubSeq(@, 1, Len(@) - 1)])
    IN  ShlCStr(ShlCStr(ShlName(ShlCStr(w6, CStr(LtSlash)), name), CStr(Gt)),
                CStr(Newline))

EndElement(w, mode) ==
    LET w1 == assert(w, Len(w.mElements) > 0)
        w2 == assert(w1, ~w1.mAttributes)
        w3 == assert(w2, w2.mLevel > 0)
        w4 == Set(w3, [w3 EXCEPT !.mLevel = @ - 1])
        w5 == IF mode # terse THEN Indent(w4) ELSE w4
        name == IF w5.ok THEN w5.mElements[Len(w5.mElements)] ELSE NullPtr
        w6 == Set(w5, [w5 EXCEPT !.mElements = SubSeq(@, 1, Len(@) - 1)])
    IN  ShlCStr(ShlCStr(ShlName(ShlCStr(w6, CStr(LtSlash)), name), CStr(Gt)),
                CStr(Newline))

\* Faulty variant: value is checked only when it is written.
WriteElement_NoValueCheck(w, name, value) ==
    LET w1 == assert(w, name # NullPtr)
    IN  EndElement(Shl(BeginElement(w1, name, terse), value), terse)

\* Faulty variant: the element is opened in normal mode.
WriteElement_Normal(w, name, value) ==
    LET w1 == assert(w, name # NullPtr)
        w2 == IF value.kind = "cstr" THEN assert(w1, ~value.str.null) ELSE w1
    IN  EndElement(Shl(BeginElement(w2, name, normal), value), terse)

\* The six WriteElement overloads; only the const char * one asserts value.
WriteElement(w, name, value) ==
    LET w1 == assert(w, name # NullPtr)
        w2 == IF value.kind = "cstr" THEN assert(w1, ~value.str.null) ELSE w1
    IN  EndElement(Shl(BeginElement(w2, name, terse), value), terse)

\* Faulty variant: the attribute list is not checked.
WriteAttr_NoWindowCheck(w, name, value) ==
    LET w2 == assert(w, name # NullPtr)
        w3 == IF value.kind = "cstr" THEN assert(w2, ~value.str.null) ELSE w2
    IN  ShlCStr(Shl(ShlCStr(ShlName(ShlCStr(w3, CStr(Space)), name), CStr(EqQuote)),
                    value), CStr(Quote))

\* The five WriteAttr overloads (there is none for unsigned int).
WriteAttr(w, name, value) ==
    LET w1 == assert(w, w.mAttributes)
        w2 == assert(w1, name # NullPtr)
        w3 == IF value.kind = "cstr" THEN assert(w2, ~value.str.null) ELSE w2
    IN  ShlCStr(Shl(ShlCStr(ShlName(ShlCStr(w3, CStr(Space)), name), CStr(EqQuote)),
                    value), CStr(Quote))

(***************************************************************************)
(* Reading the byte stream (used by the history variables and the          *)
(* properties, not by the writer).                                         *)
(***************************************************************************)
RECURSIVE Tabs(_)
Tabs(n) == IF n <= 0 THEN <<>> ELSE Tab \o Tabs(n - 1)

\* The number of tab characters t starts with.
RECURSIVE LeadingTabs(_)
LeadingTabs(t) == IF Len(t) > 0 /\ t[1] = "\t" THEN 1 + LeadingTabs(Tail(t)) ELSE 0

\* t without the tabs it starts with.
AfterIndent(t) == SubSeq(t, LeadingTabs(t) + 1, Len(t))

\* Start tags: a "<" followed by neither "/" nor "?".
OpenTags(t) ==
    Cardinality({i \in 1..Len(t) :
        t[i] = "<" /\ (i = Len(t) \/ t[i + 1] \notin {"/", "?"})})

\* End tags: "</".
CloseTags(t) ==
    Cardinality({i \in 1..Len(t) : t[i] = "<" /\ i < Len(t) /\ t[i + 1] = "/"})

\* t without its tab and newline characters.
Strip(t) == SelectSeq(t, LAMBDA c : c \notin {"\t", "\n"})

IsPrefix(p, t) == Len(p) <= Len(t) /\ SubSeq(t, 1, Len(p)) = p
IsSuffix(p, t) == Len(p) <= Len(t) /\ SubSeq(t, Len(t) - Len(p) + 1, Len(t)) = p

(***************************************************************************)
(* The inputs the calls are made with.                                     *)
(***************************************************************************)
Versions == {NullStr, CStr(<<>>), CStr(<<"1", ".", "0">>)}
Encodings == {NullStr, CStr(<<>>), CStr(<<"U", "T", "F", "-", "8">>)}
\* Name arguments: a released buffer is not passed again.
Names == IF bufLive THEN NamePtrs ELSE NamePtrs \ {BufPtr}
ElemValues == {StringV(<<"x">>), CStrV(CStr(<<"h", "i">>)), CStrV(NullStr),
               IntV(-42), IntV(5), UIntV(0, 7), UIntV(65535, 65535),
               DoubleV(6), BoolV(TRUE), BoolV(FALSE)}
AttrValues == {v \in ElemValues : v.kind # "uint"}

\* after: the call made just before, kept where a property asks for it (a
\* BeginDocument after a BeginDocument, an EndElement after an EndAttrs).
Call(op) == [op |-> op, name |-> NullPtr, mode |-> normal, value |-> IntV(0),
             version |-> NullStr, encoding |-> NullStr, standalone |-> FALSE,
             after |-> IF \/ op = "BeginDocument" /\ call.op = "BeginDocument"
                          \/ op = "EndElement" /\ call.op = "EndAttrs"
                       THEN call.op ELSE ""]

(***************************************************************************)
(* One call: the writer's fields and the second writer's are replaced by   *)
(* what the operation leaves, and the history variables follow the bytes.  *)
(***************************************************************************)
This == [mLevel |-> mLevel, mElements |-> mElements, mAttributes |-> mAttributes,
         sink |-> <<>>, ok |-> TRUE]
Other == [mLevel |-> shadow.mLevel, mElements |-> shadow.mElements,
          mAttributes |-> shadow.mAttributes, sink |-> <<>>, ok |-> shadow.ok]

Running == result = "ok"

\* A failed assert leaves no trace but the abort: the bytes already written
\* stay written and the fields keep what they held at that point.
Step(w, w2, m2, c, open) ==
    /\ mLevel' = w.mLevel
    /\ mElements' = w.mElements
    /\ mAttributes' = w.mAttributes
    /\ written' = w.sink
    /\ result' = IF w.ok THEN "ok" ELSE "violation"
    /\ call' = c
    /\ shadow' = [mLevel |-> w2.mLevel, mElements |-> w2.mElements,
                  mAttributes |-> w2.mAttributes, written |-> w2.sink,
                  ok |-> w2.ok, mode |-> m2]
    /\ balance' = balance + OpenTags(w.sink) - CloseTags(w.sink)
    /\ opened' = CASE ~w.ok -> opened
                   [] open = "push" ->
                        Append(opened, [name |-> Deref(c.name),
                                        indent |-> LeadingTabs(w.sink)])
                   [] open = "pop" -> SubSeq(opened, 1, Len(opened) - 1)
                   [] OTHER -> opened
    /\ UNCHANGED <<buf, bufLive, closing>>

Init ==
    /\ mLevel = Output.mLevel
    /\ mElements = Output.mElements
    /\ mAttributes = Output.mAttributes
    /\ buf \in BufTexts
    /\ bufLive = TRUE
    /\ written = <<>>
    /\ result = "ok"
    /\ call = [op |-> "Output", name |-> NullPtr, mode |-> normal, value |-> IntV(0),
               version |-> NullStr, encoding |-> NullStr, standalone |-> FALSE,
               after |-> ""]
    /\ opened = <<>>
    /\ balance = 0
    /\ shadow = [mLevel |-> Output.mLevel, mElements |-> Output.mElements,
                 mAttributes |-> Output.mAttributes, written |-> <<>>,
                 ok |-> TRUE, mode |-> normal]
    /\ closing = -1

CallBeginDocument ==
    \E version \in Versions, encoding \in Encodings, standalone \in BOOLEAN :
        /\ Running
        /\ Step(BeginDocument(This, version, encoding, standalone),
                BeginDocument(Other, version, encoding, standalone), normal,
                [Call("BeginDocument") EXCEPT !.version = version,
                    !.encoding = encoding, !.standalone = standalone], "none")

CallEndDocument ==
    /\ Running
    /\ Step(EndDocument(This), EndDocument(Other), normal, Call("EndDocument"), "none")

CallBeginElement ==
    \E name \in Names, mode \in Modes, mode2 \in Modes :
        /\ Running
        /\ BeginElement(This, name, mode).mLevel <= MaxDepth
        /\ Step(BeginElement(This, name, mode), BeginElement(Other, name, mode2), mode2,
                [Call("BeginElement") EXCEPT !.name = name, !.mode = mode], "push")

CallBeginElementAttrs ==
    \E name \in Names :
        /\ Running
        /\ BeginElementAttrs(This, name).mLevel <= MaxDepth
        /\ Step(BeginElementAttrs(This, name), BeginElementAttrs(Other, name), normal,
                [Call("BeginElementAttrs") EXCEPT !.name = name], "push")

CallEndAttrs ==
    \E mode \in Modes, mode2 \in Modes :
        /\ Running
        /\ Step(EndAttrs(This, mode), EndAttrs(Other, mode2), mode2,
                [Call("EndAttrs") EXCEPT !.mode = mode], "none")

CallEndElement ==
    \E mode \in Modes, mode2 \in Modes :
        /\ Running
        /\ Step(EndElement(This, mode), EndElement(Other, mode2), mode2,
                [Call("EndElement") EXCEPT !.mode = mode], "pop")

CallWriteElement ==
    \E name \in Names, value \in ElemValues :
        /\ Running
        /\ Step(WriteElement(This, name, value), WriteElement(Other, name, value), terse,
                [Call("WriteElement") EXCEPT !.name = name, !.mode = terse,
                    !.value = value], "none")

CallWriteAttr ==
    \E name \in Names, value \in AttrValues :
        /\ Running
        /\ Step(WriteAttr(This, name, value), WriteAttr(Other, name, value), normal,
                [Call("WriteAttr") EXCEPT !.name = name, !.value = value], "none")

(***************************************************************************)
(* The caller, between two calls: it may overwrite its buffer or release   *)
(* it.  A released buffer holds whatever the allocator leaves there.       *)
(***************************************************************************)
CallerStep(c) ==
    /\ written' = <<>>
    /\ call' = c
    /\ shadow' = [shadow EXCEPT !.written = <<>>, !.mode = normal]
    /\ UNCHANGED <<mLevel, mElements, mAttributes, result, opened, balance, closing>>

Overwrite ==
    \E t \in BufTexts :
        /\ Running
        /\ bufLive
        /\ t # buf
        /\ buf' = t
        /\ UNCHANGED bufLive
        /\ CallerStep(Call("Overwrite"))

Release ==
    \E t \in GarbageTexts :
        /\ Running
        /\ bufLive
        /\ buf' = t
        /\ bufLive' = FALSE
        /\ CallerStep(Call("Release"))

Next ==
    \/ CallBeginDocument
    \/ CallEndDocument
    \/ CallBeginElement
    \/ CallBeginElementAttrs
    \/ CallEndAttrs
    \/ CallEndElement
    \/ CallWriteElement
    \/ CallWriteAttr
    \/ Overwrite
    \/ Release

Spec == Init /\ [][Next]_vars

(***************************************************************************)
(* Completing the document.  At any moment the caller may decide to close  *)
(* everything that is open: EndAttrs if an attribute list is open, then    *)
(* EndElement until no element is open, then EndDocument.  The caller may  *)
(* still touch its buffer between these calls.                             *)
(***************************************************************************)
StartClosing ==
    /\ Running
    /\ closing = -1
    /\ closing' = mLevel
    /\ written' = <<>>
    /\ call' = Call("StartClosing")
    /\ shadow' = [shadow EXCEPT !.written = <<>>, !.mode = normal]
    /\ UNCHANGED <<mLevel, mElements, mAttributes, buf, bufLive, result, opened, balance>>

CloseAttrs ==
    /\ closing >= 0
    /\ mAttributes
    /\ CallEndAttrs

CloseElement ==
    /\ closing >= 0
    /\ ~mAttributes
    /\ mLevel > 0
    /\ CallEndElement

CloseDocument ==
    /\ closing >= 0
    /\ ~mAttributes
    /\ mLevel = 0
    /\ CallEndDocument

CloseStep == CloseAttrs \/ CloseElement \/ CloseDocument

Writing == closing = -1 /\ Next

Touching == closing >= 0 /\ (Overwrite \/ Release)

NextLive ==
    \/ Writing
    \/ StartClosing
    \/ CloseAttrs
    \/ CloseElement
    \/ CloseDocument
    \/ Touching

\* What the closing call that is due does to mAttributes, mLevel and call:
\* EndAttrs clears mAttributes, EndElement decrements mLevel, EndDocument
\* changes neither.  Its steps are the steps of CloseStep (C20 checks it), and
\* TLC evaluates ENABLED on it far faster than on CloseStep.
closeVars == <<mAttributes, mLevel, call>>

Closes ==
    /\ closing >= 0
    /\ Running
    /\ mAttributes' = FALSE
    /\ \/ /\ mAttributes
          /\ mLevel' = mLevel
          /\ \E mode \in Modes : call' = [Call("EndAttrs") EXCEPT !.mode = mode]
       \/ /\ ~mAttributes
          /\ mLevel > 0
          /\ mLevel' = mLevel - 1
          /\ \E mode \in Modes : call' = [Call("EndElement") EXCEPT !.mode = mode]
       \/ /\ ~mAttributes
          /\ mLevel = 0
          /\ mLevel' = mLevel
          /\ call' = Call("EndDocument")

\* The closing calls are made whenever they are due.
SpecLive == Init /\ [][NextLive]_vars /\ WF_closeVars(Closes)

(***************************************************************************)
(* Properties.                                                             *)
(***************************************************************************)
WriterOps == {"BeginDocument", "EndDocument", "BeginElement", "BeginElementAttrs",
              "EndAttrs", "EndElement", "WriteElement", "WriteAttr"}

\* The step just taken is a call of op that passed every assert.
Did(op) == call'.op = op /\ result' = "ok"

\* C1: stack discipline.  Every successful endElement writes the closing
\* tag of the element most recently opened and not yet closed, with the name
\* that element was opened with; writeElement closes the element it opened;
\* and whenever no element is open, as many open tags as close tags have been
\* written.
C1_StackDiscipline ==
    [][ /\ Did("EndElement") =>
              /\ Len(opened) > 0
              /\ IsSuffix(LtSlash \o opened[Len(opened)].name \o Gt \o Newline, written')
        /\ Did("WriteElement") =>
              /\ IsSuffix(LtSlash \o Deref(call'.name) \o Gt \o Newline, written')
              /\ opened' = opened
        /\ (result' = "ok" /\ Len(mElements') = 0) => balance' = 0
      ]_vars

\* C2: endDocument succeeds exactly when no element is open and no
\* attribute window is open, and signals a violation in every other state.
C2_EndDocumentIff ==
    [][ call'.op = "EndDocument" =>
            /\ result' \in {"ok", "violation"}
            /\ result' = "ok" <=>
                 (Len(mElements) = 0 /\ Len(opened) = 0 /\ ~mAttributes)
      ]_vars

C2_Witness ==
    /\ call.op = "EndDocument"
    /\ result = "violation"
    /\ mAttributes
    /\ Len(mElements) = 1

\* C3: depth is never negative and always equals the number of open
\* elements (the length of the stack and the number of elements opened and
\* not closed); a new writer has depth 0, no open element and no window.
C3_DepthIsStackLength ==
    /\ mLevel >= 0
    /\ mLevel = Len(mElements)
    /\ mLevel = Len(opened)
    /\ call.op = "Output" => (mLevel = 0 /\ mElements = <<>> /\ ~mAttributes)

C3_Witness ==
    /\ call.op = "EndElement"
    /\ result = "ok"
    /\ mLevel = 2
    /\ Len(mElements) = 2

\* C4: writeAttribute (any value kind) and endAttributes pass only while
\* the attribute window is open, and are violations while it is closed; the
\* window is opened by beginElementWithAttributes alone and closed by
\* endAttributes alone.
C4_AttributeWindow ==
    [][ /\ (call'.op \in {"WriteAttr", "EndAttrs"} /\ ~mAttributes)
               => result' = "violation"
        /\ (call'.op \in {"WriteAttr", "EndAttrs"} /\ result' = "ok") => mAttributes
        /\ (~mAttributes /\ mAttributes') => Did("BeginElementAttrs")
        /\ (mAttributes /\ ~mAttributes') => Did("EndAttrs")
        /\ Did("BeginElementAttrs") => mAttributes'
        /\ Did("EndAttrs") => ~mAttributes'
      ]_vars

C4_Witness ==
    /\ call.op = "WriteAttr"
    /\ result = "violation"
    /\ call.name # NullPtr
    /\ ~(call.value.kind = "cstr" /\ call.value.str.null)
    /\ ~mAttributes
    /\ mLevel > 0

\* C5: endElement is a violation exactly when no element is open or the
\* attribute window is open; when it succeeds, depth drops by one and exactly
\* the top name leaves the stack.
C5_EndElement ==
    [][ call'.op = "EndElement" =>
            /\ result' = "violation" <=> (Len(mElements) = 0 \/ mAttributes)
            /\ result' = "ok" =>
                 /\ mLevel' = mLevel - 1
                 /\ Len(mElements) > 0
                 /\ mElements' = SubSeq(mElements, 1, Len(mElements) - 1)
      ]_vars

C5_Witness ==
    /\ call.op = "EndElement"
    /\ result = "ok"
    /\ mLevel = 1
    /\ Len(mElements) = 1

\* The bytes of one attribute: a space, the name, =", a value, ".
IsAttrText(t, name) ==
    /\ IsPrefix(Space \o name \o EqQuote, t)
    /\ IsSuffix(Quote, t)
    /\ Len(t) >= Len(name) + 4

\* C6: while the attribute window is open, every call other than
\* writeAttribute and endAttributes is rejected and writes nothing, so the
\* only bytes written inside the unfinished start tag are attribute texts.
C6_OnlyAttributesInWindow ==
    [][ mAttributes =>
            /\ (call'.op \in WriterOps \ {"WriteAttr", "EndAttrs"})
                   => (result' = "violation" /\ written' = <<>>)
            /\ (mAttributes' /\ written' # <<>>)
                   => IsAttrText(written', Deref(call'.name))
      ]_vars

\* C7: indentation equals depth.  An open tag (beginElement,
\* beginElementWithAttributes, writeElement) comes right after one tab per
\* element open when the call is made; a close tag written in normal mode
\* comes right after one tab per element still open once the closed one is
\* gone, which is the indentation that element was opened with.
C7_IndentationIsDepth ==
    [][ /\ (Did("BeginElement") \/ Did("BeginElementAttrs") \/ Did("WriteElement"))
               => IsPrefix(Tabs(Len(opened)) \o Lt \o Deref(call'.name), written')
        /\ (Did("EndElement") /\ call'.mode = normal) =>
               /\ IsPrefix(Tabs(Len(opened')) \o LtSlash, written')
               /\ Len(opened) > 0
               /\ LeadingTabs(written') = opened[Len(opened)].indent
      ]_vars

C7_Witness ==
    /\ call.op = "EndElement"
    /\ call.mode = normal
    /\ result = "ok"
    /\ LeadingTabs(written) = 2
    /\ Len(opened) = 2

\* C8: terse mode leaves out the newline after an open tag
\* (beginElement, endAttributes) and the indentation before a close tag
\* (endElement); normal mode writes them; the close tag is followed by a
\* newline in both modes.
C8_TerseMode ==
    /\ (call.op = "BeginElement" /\ result = "ok") =>
          AfterIndent(written) = Lt \o Deref(call.name) \o Gt
                                   \o (IF call.mode = terse THEN <<>> ELSE Newline)
    /\ (call.op = "EndAttrs" /\ result = "ok") =>
          written = (IF call.mode = terse THEN Gt ELSE Gt \o Newline)
    /\ (call.op = "EndElement" /\ result = "ok") =>
          /\ IsSuffix(Gt \o Newline, written)
          /\ IsPrefix(LtSlash, AfterIndent(written))
          /\ LeadingTabs(written) = (IF call.mode = terse THEN 0 ELSE mLevel)

C8_Witness ==
    /\ call.op = "EndElement"
    /\ call.mode = terse
    /\ result = "ok"
    /\ mLevel = 2
    /\ written[1] = "<"

\* C9: the mode never affects validity.  A second writer given the
\* same calls with other modes accepts and rejects the same calls, holds the
\* same depth, stack and window after every call, and has written the same
\* bytes once tabs and newlines are removed.
C9_ModeIsWhitespaceOnly ==
    /\ shadow.ok <=> (result = "ok")
    /\ shadow.mLevel = mLevel
    /\ shadow.mElements = mElements
    /\ shadow.mAttributes = mAttributes
    /\ Strip(shadow.written) = Strip(written)

C9_Witness ==
    /\ call.op = "EndElement"
    /\ result = "ok"
    /\ call.mode = normal
    /\ shadow.mode = terse
    /\ mLevel = 1
    /\ shadow.written # written

IsEmptyOrNull(s) == s.null \/ s.text = <<>>

\* C10: beginDocument is a violation when version or encoding is null
\* or empty, and otherwise writes the prologue, standalone being yes for true
\* and no for false, and a newline.
C10_BeginDocument ==
    call.op = "BeginDocument" =>
        /\ result = "violation" <=>
              (IsEmptyOrNull(call.version) \/ IsEmptyOrNull(call.encoding))
        /\ result = "ok" =>
              written = XmlVersion \o call.version.text \o XmlEncoding
                          \o call.encoding.text \o Quote \o XmlStandalone
                          \o (IF call.standalone THEN Yes ELSE No) \o XmlDeclEnd

\* C11: beginDocument has no structural precondition.  With a
\* version and an encoding that are neither null nor empty it is accepted in
\* every state the writer can be in, at any depth, inside an attribute window,
\* and after any number of earlier beginDocument calls.
C11_BeginDocumentAnywhere ==
    /\ Running =>
          \A version \in Versions, encoding \in Encodings, standalone \in BOOLEAN :
              (~IsEmptyOrNull(version) /\ ~IsEmptyOrNull(encoding))
                  => BeginDocument(This, version, encoding, standalone).ok
    /\ (/\ call.op = "BeginDocument"
        /\ ~IsEmptyOrNull(call.version)
        /\ ~IsEmptyOrNull(call.encoding)) => result = "ok"

C11_Witness ==
    /\ call.op = "BeginDocument"
    /\ call.after = "BeginDocument"
    /\ ~IsEmptyOrNull(call.version)
    /\ ~IsEmptyOrNull(call.encoding)
    /\ result = "ok"
    /\ mAttributes
    /\ mLevel = 2

\* The three calls writeElement stands for, made one after the other on w.
BeginShlEnd(w, name, value) ==
    EndElement(Shl(BeginElement(w, name, terse), value), terse)

\* C12: writeElement(name, value) is beginElement(name, terse), the
\* formatted value, endElement(terse).  In every state it is accepted exactly
\* when the three calls are, writes the bytes they write, and leaves depth,
\* stack and window as they were.  writeElement("r", 5) inside one open
\* element writes a tab and <r>5</r> and a newline.
C12_WriteElementIsBeginShlEnd ==
    [][ call'.op = "WriteElement" =>
          LET seq == BeginShlEnd(This, call'.name, call'.value)
          IN  /\ result' = "ok" <=> seq.ok
              /\ result' = "ok" =>
                   /\ written' = seq.sink
                   /\ <<mLevel', mElements', mAttributes'>>
                        = <<mLevel, mElements, mAttributes>>
                   /\ <<seq.mLevel, seq.mElements, seq.mAttributes>>
                        = <<mLevel, mElements, mAttributes>>
                   /\ opened' = opened
                   /\ (call'.name = LitPtr /\ call'.value = IntV(5) /\ Len(opened) = 1)
                        => written' = <<"\t", "<", "r", ">", "5", "<", "/", "r", ">", "\n">>
      ]_vars

C12_Witness ==
    /\ call.op = "WriteElement"
    /\ result = "ok"
    /\ call.name = LitPtr
    /\ call.value = IntV(5)
    /\ mLevel = 1
    /\ written = <<"\t", "<", "r", ">", "5", "<", "/", "r", ">", "\n">>

\* C13: an attributed element.  beginElementWithAttributes writes the
\* indentation and <name and nothing after it; each writeAttribute writes one
\* space, the attribute name, =", the value and " as the call is made, so the
\* attributes reach the stream in call order; endAttributes writes > and, unless
\* terse, a newline; endElement then writes what it writes for any element: the
\* indentation in normal mode, </name> and a newline.
C13_AttributedElement ==
    [][ /\ Did("BeginElementAttrs") =>
              written' = Tabs(Len(opened)) \o Lt \o Deref(call'.name)
        /\ Did("WriteAttr") =>
              /\ written' = Space \o Deref(call'.name) \o EqQuote
                              \o Shl(Output, call'.value).sink \o Quote
              /\ (call'.name = LitPtr /\ call'.value = IntV(5))
                    => written' = <<" ", "r", "=", "\"", "5", "\"">>
        /\ Did("EndAttrs") =>
              written' = Gt \o (IF call'.mode = terse THEN <<>> ELSE Newline)
        /\ Did("EndElement") =>
              /\ Len(mElements) > 0
              /\ written' = (IF call'.mode = terse THEN <<>> ELSE Tabs(Len(opened) - 1))
                              \o LtSlash \o Deref(mElements[Len(mElements)])
                              \o Gt \o Newline
      ]_vars

C13_Witness ==
    /\ call.op = "EndElement"
    /\ call.after = "EndAttrs"
    /\ call.mode = terse
    /\ result = "ok"
    /\ mLevel = 1
    /\ written = LtSlash \o LitText \o Gt \o Newline

\* The decimal digits of the unsigned value u = hi * 2^16 + lo, by long
\* division of the two halves by ten.
RECURSIVE UDigits(_)
UDigits(u) ==
    LET t == (u.hi % 10) * 65536 + u.lo
        q == UInt(u.hi \div 10, t \div 10)
    IN  IF q = UInt(0, 0) THEN <<DigitChar(t % 10)>>
        ELSE UDigits(q) \o <<DigitChar(t % 10)>>

\* C14: writeElement with an unsigned value writes the decimal digits of the
\* value, for every value of the unsigned 32-bit range, and never a "-".
C14_UnsignedDecimal ==
    (call.op = "WriteElement" /\ result = "ok" /\ call.value.kind = "uint") =>
        /\ written = Tabs(mLevel) \o Lt \o Deref(call.name) \o Gt
                       \o UDigits(call.value.u)
                       \o LtSlash \o Deref(call.name) \o Gt \o Newline
        /\ \A i \in 1..Len(written) : written[i] # "-"

\* The text between the start tag and the end tag of a one-line element.
ElemText(t) ==
    LET from == CHOOSE i \in 1..Len(t) : t[i] = ">" /\ \A j \in 1..(i - 1) : t[j] # ">"
        to   == CHOOSE i \in 1..Len(t) : t[i] = "<" /\ \A j \in (i + 1)..Len(t) : t[j] # "<"
    IN  SubSeq(t, from + 1, to - 1)

\* The text between the quotes of an attribute.
AttrText(t) ==
    LET from == CHOOSE i \in 1..Len(t) : t[i] = "\"" /\ \A j \in 1..(i - 1) : t[j] # "\""
    IN  SubSeq(t, from + 1, Len(t) - 1)

\* The number a decimal numeral stands for, accumulated below zero so that
\* the least 32-bit int can be read.
DigitValue(c) == CHOOSE d \in 0..9 : DigitChar(d) = c
RECURSIVE NegValue(_)
NegValue(ds) == IF Len(ds) = 0 THEN 0
                ELSE NegValue(SubSeq(ds, 1, Len(ds) - 1)) * 10 - DigitValue(ds[Len(ds)])
ParseD(t) == IF Len(t) > 0 /\ t[1] = "-" THEN NegValue(Tail(t)) ELSE 0 - NegValue(t)
IsNumeral(t) ==
    LET ds == IF Len(t) > 0 /\ t[1] = "-" THEN Tail(t) ELSE t
    IN  /\ Len(ds) > 0
        /\ \A i \in 1..Len(ds) : \E d \in 0..9 : ds[i] = DigitChar(d)
        /\ Len(ds) > 1 => ds[1] # "0"

IntSamples == {-2147483647 - 1, -2147483647, -42, -10, -1, 0, 5, 10, 99, 2147483647}
NonNullValues == {v \in AttrValues : v.kind = "cstr" => ~v.str.null}

\* C15: a signed integer is written as its decimal digits, with a leading "-"
\* exactly when it is negative (-42 gives -42); true is written True and false
\* False; and a value is written the same as element text and as attribute
\* value.
C15_ValueFormatting ==
    /\ \A v \in IntSamples :
          LET t == Shl(Output, IntV(v)).sink
          IN  IsNumeral(t) /\ ParseD(t) = v /\ (t[1] = "-" <=> v < 0)
    /\ Shl(Output, IntV(-42)).sink = <<"-", "4", "2">>
    /\ \A v \in NonNullValues :
          ElemText(WriteElement(Output, LitPtr, v).sink)
              = AttrText(WriteAttr(BeginElementAttrs(Output, LitPtr), LitPtr, v).sink)
    /\ (call.op \in {"WriteElement", "WriteAttr"} /\ result = "ok") =>
          LET t == IF call.op = "WriteElement" THEN ElemText(written)
                   ELSE AttrText(written)
          IN  /\ call.value.kind = "int" =>
                    IsNumeral(t) /\ ParseD(t) = call.value.num
                                 /\ (t[1] = "-" <=> call.value.num < 0)
              /\ call.value.kind = "bool" =>
                    t = IF call.value.b THEN <<"T", "r", "u", "e">>
                        ELSE <<"F", "a", "l", "s", "e">>

C15_Witness ==
    /\ call.op = "WriteAttr"
    /\ result = "ok"
    /\ call.value = IntV(-42)
    /\ call.name = LitPtr
    /\ written = <<" ", "r", "=", "\"", "-", "4", "2", "\"">>

\* C16: the document-level calls do not touch the nesting state.  A
\* beginDocument or endDocument call, accepted or not, leaves mLevel, mElements
\* and mAttributes as they were; endDocument writes no byte in either case; and
\* after an accepted endDocument the writer accepts endDocument again and a new
\* element.
C16_DocumentOpsFrame ==
    [][ call'.op \in {"BeginDocument", "EndDocument"} =>
            /\ <<mLevel', mElements', mAttributes'>> = <<mLevel, mElements, mAttributes>>
            /\ opened' = opened
            /\ call'.op = "EndDocument" =>
                  /\ written' = <<>>
                  /\ balance' = balance
                  /\ result' = "ok" =>
                        /\ EndDocument(This').ok
                        /\ EndDocument(This').sink = <<>>
                        /\ BeginElement(This', LitPtr, normal).ok
      ]_vars

C16_Witness ==
    /\ call.op = "EndDocument"
    /\ result = "violation"
    /\ mAttributes
    /\ mLevel = 2
    /\ Len(mElements) = 2
    /\ written = <<>>

\* C17: the writer keeps no reference to the caller's name buffer.  The end
\* tag endElement writes carries the name the element was opened with, whatever
\* the caller has done since with the buffer that held it.
C17_NameAsOpened ==
    [][ Did("EndElement") =>
            /\ Len(opened) > 0
            /\ AfterIndent(written')
                 = LtSlash \o opened[Len(opened)].name \o Gt \o Newline
      ]_vars

\* C18: violations are atomic.  A call that signals a contract violation has
\* written no byte and has changed none of mLevel, mElements and mAttributes.
C18_ViolationsAreAtomic ==
    [][ (call'.op \in WriterOps /\ result' = "violation") =>
            /\ written' = <<>>
            /\ <<mLevel', mElements', mAttributes'>> = <<mLevel, mElements, mAttributes>>
            /\ opened' = opened
            /\ balance' = balance
      ]_vars

C18_Witness ==
    /\ call.op = "WriteElement"
    /\ result = "violation"
    /\ call.name = LitPtr
    /\ call.value = CStrV(NullStr)
    /\ ~mAttributes
    /\ mLevel = 1
    /\ written = <<>>

\* C19: an open attribute list belongs to the element on top of the stack.
\* While mAttributes is set the stack is not empty; the list is opened only by
\* beginElementWithAttributes, in the step that pushes the element; and while
\* it is open no element is pushed or popped.
C19_WindowOnTop ==
    [][ /\ mAttributes' => Len(mElements') > 0
        /\ (~mAttributes /\ mAttributes') =>
              /\ call'.op = "BeginElementAttrs"
              /\ mElements' = Append(mElements, call'.name)
              /\ mLevel' = mLevel + 1
        /\ mAttributes =>
              /\ mElements' = mElements
              /\ mLevel' = mLevel
              /\ opened' = opened
      ]_vars

C19_Witness ==
    /\ call.op = "BeginElement"
    /\ call.name = LitPtr
    /\ result = "violation"
    /\ mAttributes
    /\ mLevel = 2
    /\ Len(mElements) = 2

\* n EndElement calls in a row.
RECURSIVE EndElements(_, _, _)
EndElements(w, n, mode) ==
    IF n = 0 THEN w ELSE EndElements(EndElement(w, mode), n - 1, mode)

\* EndAttrs if an attribute list is open, then mLevel EndElement calls.
CloseAll(w, mode) ==
    EndElements(IF w.mAttributes THEN EndAttrs(w, mode) ELSE w, w.mLevel, mode)

Complete ==
    /\ closing >= 0
    /\ call.op = "EndDocument"
    /\ result = "ok"
    /\ mLevel = 0
    /\ Len(mElements) = 0
    /\ ~mAttributes

\* C20: the document can always be completed.  From every state the writer
\* can be in, EndAttrs (if an attribute list is open) followed by exactly
\* mLevel EndElement calls passes every assert and leaves a writer on which
\* EndDocument passes; no closing call the caller makes is rejected; and when
\* the closing calls are made whenever they are due, the document is eventually
\* complete.
C20_CanAlwaysComplete ==
    /\ [](Running =>
            \A mode \in Modes :
                LET w == CloseAll(This, mode)
                IN  /\ w.ok
                    /\ w.mLevel = 0
                    /\ Len(w.mElements) = 0
                    /\ ~w.mAttributes
                    /\ EndDocument(w).ok)
    /\ [][ (closing >= 0 /\ call'.op \in WriterOps) =>
              /\ result' = "ok"
              /\ call'.op = "EndElement" => mLevel' = mLevel - 1
         ]_vars
    /\ [][<<Closes>>_closeVars <=> <<CloseStep>>_vars]_vars
    /\ (closing >= 0) ~> Complete

C20_Witness ==
    /\ Complete
    /\ closing >= 2
    /\ ~bufLive

=============================================================================
